---- MODULE Spec2Model ----
(***************************************************************************)
(* Model of the auction bot (src/bot.py): the persistent store (tables     *)
(* auctions and bids), the in-memory maps current_auctions,                *)
(* outbid_watchers and scheduled_messages, the scheduler's job store, the  *)
(* confirm_bid coroutine cut at its await points, parse_amount, the        *)
(* handlers on_message, track_auction, notify_outbid, cb, set_reminder and *)
(* on_raw_reaction_add, and the restart of the process.                    *)
(*                                                                         *)
(* Time is counted in ticks.  A tick is the resolution of                  *)
(* datetime.datetime (a microsecond in the program); Sec ticks make one    *)
(* whole second, the resolution of SQLite's datetime() and of a <t:UNIX>   *)
(* timestamp; Hour ticks make timedelta(hours=1).  Both are scaled down,   *)
(* and the clock stops at MaxTime.                                         *)
(***************************************************************************)
EXTENDS Integers, Sequences, FiniteSets, Bags, TLC

\* ------------------------------------------------------------------ bounds
Sec == 2
Hour == 2
MaxTime == 5
MaxUsers == 2
MaxAmount == 2
MaxCalls == 2
MaxJobs == 4
MaxOffset == 2
MaxText == 4
MaxBids == 3

\* One listing message is followed; its id is its auction's id
\* (str(message.id), lines 371 and 495).  The store holds auction ids.
MessageIds == {1}
AuctionIds == {1, 2}
Users == 1..MaxUsers
Amounts == 0..MaxAmount
Times == 0..MaxTime
\* the instants a <t:UNIX> token can name: whole seconds
EndTimes == {t \in Times : t % Sec = 0}
Slots == 1..MaxCalls
Kinds == {"halfway", "one_hour"}
\* the hours and minutes a /set_reminder request can carry (int arguments)
Offsets == (0 - MaxOffset)..MaxOffset

\* NULL in auctions.end_time_utc; None for prev_bidder_id; a message that
\* is not posted, and a message with no <t:UNIX> token
NoEnd == 0 - 1
NoUser == 0
NoMsg == 0 - 2
NoStamp == 0 - 1
\* parse_amount raised ValueError; nothing was parsed yet
NoAmount == 0 - 1
NotParsed == 0 - 2

VARIABLES
    now,                \* the clock (datetime.now(UTC)), in ticks
    content,            \* content[m]: the <t:UNIX> of message m, NoStamp, NoMsg
    auctions,           \* table auctions: auction_id -> row or NoRow
    bids,               \* table bids, in rowid order
    current_auctions,   \* in-memory leader snapshot per auction
    outbid_watchers,    \* outbid_watchers[a]: the set of watching users
    scheduled_messages, \* set of message ids
    jobs,               \* the scheduler's job store: a bag of pending jobs
    delivered,          \* delivered[m][k]: alerts of kind k sent to the channel
    detect,             \* detect[m]: the on_message coroutine of message m
    calls,              \* calls[c]: a confirm_bid coroutine
    dm_count,           \* dm_count[a][u]: outbid DMs u got for a since u's last notify_outbid
    text,               \* the content of the bid message last confirmed by reaction
    parsed              \* what parse_amount made of it

vars == <<now, content, auctions, bids, current_auctions, outbid_watchers,
          scheduled_messages, jobs, delivered, detect, calls, dm_count,
          text, parsed>>

\* ------------------------------------------------------------------- store
NoRow == [end_time_utc |-> NoEnd, status |-> "absent"]

\* a lookup that takes every id for a registered auction
get_auction_on_the_fly(store, a) ==
    IF store[a] = NoRow THEN [end_time_utc |-> NoEnd, status |-> "pending"] ELSE store[a]

get_auction(store, a) == store[a]

\* datetime(x) of SQLite: the instant cut to whole seconds
datetime(t) == t - (t % Sec)

\* an upsert that overwrites the end time of an existing row
upsert_overwriting(store, a, end_time_utc) ==
    IF store[a] = NoRow
    THEN [store EXCEPT ![a] = [end_time_utc |-> end_time_utc, status |-> "pending"]]
    ELSE [store EXCEPT ![a].end_time_utc = end_time_utc]

upsert_pending_auction(store, a, end_time_utc) ==
    IF get_auction(store, a) = NoRow
    THEN [store EXCEPT ![a] = [end_time_utc |-> end_time_utc, status |-> "pending"]]
    ELSE IF store[a].end_time_utc = NoEnd
         THEN [store EXCEPT ![a].end_time_utc = end_time_utc]
         ELSE store

\* UPDATE ... WHERE auction_id = ?: no row, no change
set_auction_active(store, a) ==
    IF store[a] = NoRow THEN store ELSE [store EXCEPT ![a].status = "active"]

set_auction_ended(store, a) ==
    IF store[a] = NoRow THEN store ELSE [store EXCEPT ![a].status = "ended"]

\* ---------------------------------------------------------------- the ledger
BidsOf(table, a) == SelectSeq(table, LAMBDA b : b.auction_id = a)

\* an insert that is never committed: the table stays as it was
record_bid_uncommitted(table, a, user_id, amount, when) == table

record_bid(table, a, user_id, amount, when) ==
    Append(table, [auction_id |-> a, user_id |-> user_id, amount |-> amount,
                   bid_time_utc |-> when])

\* ORDER BY amount DESC, datetime(bid_time_utc) ASC: TRUE when row x sorts
\* strictly before row y
SortsBefore(x, y) ==
    \/ x.amount > y.amount
    \/ x.amount = y.amount /\ datetime(x.bid_time_utc) < datetime(y.bid_time_utc)

\* LIMIT 1 of the ordered rows (rows: a sequence in rowid order); rows equal
\* on both keys come out in rowid order.  <<>> when there is no row.
FirstRow(rows) ==
    IF rows = <<>> THEN <<>>
    ELSE LET i == CHOOSE i \in 1..Len(rows) :
                    \A j \in 1..Len(rows) :
                        /\ ~SortsBefore(rows[j], rows[i])
                        /\ (j < i => SortsBefore(rows[i], rows[j]))
         IN <<rows[i]>>

\* a leader query that sorts the wrong way round: ORDER BY amount ASC
get_current_lowest_now(table, a) ==
    LET rows == BidsOf(table, a)
    IN IF rows = <<>> THEN <<>>
       ELSE LET i == CHOOSE i \in 1..Len(rows) :
                         \A j \in 1..Len(rows) : rows[i].amount <= rows[j].amount
            IN <<rows[i]>>

get_current_highest_now(table, a) == FirstRow(BidsOf(table, a))

get_highest_bid_before_end(table, store, a) ==
    IF store[a] = NoRow \/ store[a].end_time_utc = NoEnd THEN <<>>
    ELSE FirstRow(SelectSeq(BidsOf(table, a),
            LAMBDA b : datetime(b.bid_time_utc) <= datetime(store[a].end_time_utc)))

\* ------------------------------------------------------------ parse_amount
\* A text is a sequence of characters.
Digits == {"0", "1", "2", "3", "4", "5", "6", "7", "8", "9"}

DigitVal(ch) ==
    CASE ch = "0" -> 0 [] ch = "1" -> 1 [] ch = "2" -> 2 [] ch = "3" -> 3
      [] ch = "4" -> 4 [] ch = "5" -> 5 [] ch = "6" -> 6 [] ch = "7" -> 7
      [] ch = "8" -> 8 [] ch = "9" -> 9

\* the characters bid messages are drawn from: digits, the thousand marker
\* in both cases, the separators and tokens line 147 removes, and a blank
BidChars == {"5", "0", "k", "K", ",", "$", "u", "p", "x", " "}

RECURSIVE SeqsUpTo(_)
SeqsUpTo(n) ==
    IF n = 0 THEN {<<>>}
    ELSE LET shorter == SeqsUpTo(n - 1)
         IN shorter \cup {Append(t, ch) : t \in shorter, ch \in BidChars}

\* the messages of the docstring (lines 143-146) and of the claims
Examples ==
    { <<"5", "k">>,
      <<"I", "'", "l", "l", " ", "g", "o", " ", "1", "0", "k">>,
      <<"n", "e", "w", " ", "b", "i", "d", " ", "7", ",", "5", "0", "0">>,
      <<"$", "1", "2">>,
      <<"1", "2", " ", "u", "p", "x">>,
      <<"5", "u", "p", "x", "k">>,
      <<"5", "U", "P", "X", " ", "K">> }

Texts == SeqsUpTo(MaxText) \cup Examples

\* str.lower, on the letters that matter to line 147 and line 148
LowerChar(ch) ==
    CASE ch = "K" -> "k" [] ch = "U" -> "u" [] ch = "P" -> "p" [] ch = "X" -> "x"
      [] ch = "I" -> "i" [] OTHER -> ch

Lower(t) == [i \in 1..Len(t) |-> LowerChar(t[i])]

\* str.replace(pat, ""): the occurrences of pat, left to right, not overlapping
RECURSIVE Remove(_, _)
Remove(t, pat) ==
    IF Len(t) < Len(pat) THEN t
    ELSE IF SubSeq(t, 1, Len(pat)) = pat
         THEN Remove(SubSeq(t, Len(pat) + 1, Len(t)), pat)
         ELSE <<t[1]>> \o Remove(Tail(t), pat)

\* line 147
Stripped(t) == Remove(Remove(Remove(Lower(t), <<",">>), <<"u", "p", "x">>), <<"$">>)

\* int() of a run of digits
RECURSIVE IntOf(_)
IntOf(ds) ==
    IF ds = <<>> THEN 0
    ELSE 10 * IntOf(SubSeq(ds, 1, Len(ds) - 1)) + DigitVal(ds[Len(ds)])

\* a parse that forgets to take the thousands separators out
parse_amount_with_commas(t) ==
    LET s == Remove(Remove(Lower(t), <<"u", "p", "x">>), <<"$">>)
        starts == {i \in 1..Len(s) : s[i] \in Digits}
    IN IF starts = {} THEN NoAmount
       ELSE LET i == CHOOSE i \in starts : \A k \in starts : i <= k
                j == CHOOSE j \in i..Len(s) :
                        /\ \A k \in i..j : s[k] \in Digits
                        /\ j = Len(s) \/ s[j + 1] \notin Digits
                amount == IntOf(SubSeq(s, i, j))
            IN IF j < Len(s) /\ s[j + 1] = "k" THEN amount * 1000 ELSE amount

\* lines 147-154: re.search(r"(\d+)(k)?") finds the leftmost digit, takes
\* the digits that follow it greedily, then a "k" if it comes next
parse_amount(t) ==
    LET s == Stripped(t)
        starts == {i \in 1..Len(s) : s[i] \in Digits}
    IN IF starts = {} THEN NoAmount
       ELSE LET i == CHOOSE i \in starts : \A k \in starts : i <= k
                j == CHOOSE j \in i..Len(s) :
                        /\ \A k \in i..j : s[k] \in Digits
                        /\ j = Len(s) \/ s[j + 1] \notin Digits
                amount == IntOf(SubSeq(s, i, j))
            IN IF j < Len(s) /\ s[j + 1] = "k" THEN amount * 1000 ELSE amount

\* ------------------------------------------------------ the alert scheduler
\* timedelta / 2: the quotient rounded to the nearest tick, a half to even
HalfOf(d) ==
    LET q == d \div 2
    IN IF d % 2 = 0 THEN q ELSE IF q % 2 = 0 THEN q ELSE q + 1

\* the test with the boundary let through
FarEnoughOrEqual(end_time, t) == end_time >= t + Hour

\* end_time > now + timedelta(hours=1)
FarEnough(end_time, t) == end_time > t + Hour

\* the remaining time added whole, not halved
halfway_unhalved(end_time, t) == t + (end_time - t)

halfway_time(end_time, t) == t + HalfOf(end_time - t)

one_hour_before(end_time) == end_time - Hour

Job(kind, m, run_date) == [kind |-> kind, message_id |-> m, run_date |-> run_date]

\* the two add_job calls: no job id is given, so each call adds a new job
add_jobs(store, m, end_time, t) ==
    store (+) SetToBag({Job("halfway", m, halfway_time(end_time, t))})
          (+) SetToBag({Job("one_hour", m, one_hour_before(end_time))})

NoDetect == [pc |-> "none", now |-> 0, end_time |-> NoEnd]

\* ------------------------------------------------------------------- Init
\* a confirm_bid coroutine: where it is, and the locals it still reads
Idle == [pc |-> "idle", auction_id |-> 0, prev |-> NoUser]

NoSnap == [highest_bidder |-> NoUser, amount |-> 0]

Init ==
    /\ now = 0
    /\ content = [m \in MessageIds |-> NoMsg]
    /\ auctions = [a \in AuctionIds |-> NoRow]
    /\ bids = <<>>
    /\ current_auctions = [a \in AuctionIds |-> NoSnap]
    /\ outbid_watchers = [a \in AuctionIds |-> {}]
    /\ scheduled_messages = {}
    /\ jobs = EmptyBag
    /\ delivered = [m \in MessageIds |-> [k \in Kinds |-> 0]]
    /\ detect = [m \in MessageIds |-> NoDetect]
    /\ calls = [c \in Slots |-> Idle]
    /\ dm_count = [a \in AuctionIds |-> [u \in Users |-> 0]]
    /\ text = <<>>
    /\ parsed = NotParsed

\* ------------------------------------------------------------------ clock
Tick ==
    /\ now < MaxTime
    /\ now' = now + 1
    /\ UNCHANGED <<text, parsed, content, auctions, bids, current_auctions, outbid_watchers,
                   scheduled_messages, jobs, delivered, detect, calls, dm_count>>

\* --------------------------------------------------------------- messages
\* A human posts message m in an auction channel; on_message runs up to its
\* await of channel.send (line 502).  stamp is the <t:UNIX> of the text.
OnMessage(m, stamp) ==
    /\ content[m] = NoMsg
    /\ content' = [content EXCEPT ![m] = stamp]
    /\ IF m \in scheduled_messages \/ stamp = NoStamp
       THEN UNCHANGED <<auctions, detect>>
       ELSE /\ auctions' = upsert_pending_auction(auctions, m, stamp)
            /\ detect' = [detect EXCEPT ![m] =
                              [pc |-> "await_prompt", now |-> now, end_time |-> stamp]]
    /\ UNCHANGED <<text, parsed, now, bids, current_auctions, outbid_watchers,
                   scheduled_messages, jobs, delivered, calls, dm_count>>

\* on_message after the prompt is sent: lines 507-520, with the now of line 491
OnMessageSchedule(m) ==
    /\ detect[m].pc = "await_prompt"
    /\ detect' = [detect EXCEPT ![m] = [NoDetect EXCEPT !.pc = "done"]]
    /\ IF ~FarEnough(detect[m].end_time, detect[m].now)
       THEN UNCHANGED <<scheduled_messages, jobs>>
       ELSE /\ BagCardinality(jobs) + 2 <= MaxJobs
            /\ scheduled_messages' = scheduled_messages \cup {m}
            /\ jobs' = add_jobs(jobs, m, detect[m].end_time, detect[m].now)
    /\ UNCHANGED <<text, parsed, now, content, auctions, bids, current_auctions, outbid_watchers,
                   delivered, calls, dm_count>>

\* The author edits the text of message m (no handler listens to edits).
EditMessage(m, stamp) ==
    /\ content[m] # NoMsg
    /\ content[m] # stamp
    /\ content' = [content EXCEPT ![m] = stamp]
    /\ UNCHANGED <<text, parsed, now, auctions, bids, current_auctions, outbid_watchers,
                   scheduled_messages, jobs, delivered, detect, calls, dm_count>>

\* /track_auction m, from the fetched message on (lines 361-389)
TrackAuction(m) ==
    /\ content[m] \in EndTimes
    /\ auctions' = set_auction_active(
                       upsert_pending_auction(auctions, m, content[m]), m)
    /\ IF ~FarEnough(content[m], now)
       THEN UNCHANGED <<scheduled_messages, jobs>>
       ELSE /\ BagCardinality(jobs) + 2 <= MaxJobs
            /\ scheduled_messages' = scheduled_messages \cup {m}
            /\ jobs' = add_jobs(jobs, m, content[m], now)
    /\ UNCHANGED <<text, parsed, now, content, bids, current_auctions, outbid_watchers,
                   delivered, detect, calls, dm_count>>

\* The scheduler runs a date job that is due: send_halfway_alert or
\* send_one_hour_alert sends to the channel; a date job runs once.
FireJob(j) ==
    /\ BagIn(j, jobs)
    /\ j.kind \in Kinds
    /\ j.run_date <= now
    /\ jobs' = jobs (-) SetToBag({j})
    /\ delivered' = [delivered EXCEPT ![j.message_id][j.kind] = @ + 1]
    /\ UNCHANGED <<text, parsed, now, content, auctions, bids, current_auctions, outbid_watchers,
                   scheduled_messages, detect, calls, dm_count>>

\* -------------------------------------------------------------- reminders
\* timedelta(minutes=1) in ticks; Hour ticks are timedelta(hours=1)
Minute == 1

\* line 310: datetime.timedelta(hours=hours, minutes=minutes)
total_delay(hours, minutes) == hours * Hour + minutes * Minute

\* the job of send_reminder_dm in the scheduler's store (its id carries the
\* request's timestamp, so every request adds a job)
ReminderJob(user_id, a, run_time) ==
    [kind |-> "reminder", message_id |-> a, run_date |-> run_time, user_id |-> user_id]

\* /set_reminder (lines 295-327); the scheduler reads the naive run_time in
\* its own time zone, taken to be UTC here
SetReminder(user_id, a, hours, minutes) ==
    /\ IF hours = 0 /\ minutes = 0
       THEN UNCHANGED jobs
       ELSE /\ BagCardinality(jobs) < MaxJobs
            /\ jobs' = jobs (+) SetToBag({ReminderJob(user_id, a,
                                              now + total_delay(hours, minutes))})
    /\ UNCHANGED <<text, parsed, now, content, auctions, bids, current_auctions,
                   outbid_watchers, scheduled_messages, delivered, detect, calls,
                   dm_count>>

\* The scheduler takes a due reminder job off its store and runs
\* send_reminder_dm (lines 330-333); a date job runs once.
SendReminderDm(j) ==
    /\ BagIn(j, jobs)
    /\ j.kind = "reminder"
    /\ j.run_date <= now
    /\ jobs' = jobs (-) SetToBag({j})
    /\ UNCHANGED <<text, parsed, now, content, auctions, bids, current_auctions,
                   outbid_watchers, scheduled_messages, delivered, detect, calls,
                   dm_count>>

\* ------------------------------------------------------------ confirm_bid
\* the comparison off by one: a bid equal to the leader passes
BidLower(current, amount) == current # <<>> /\ amount < current[1].amount

\* line 237: current and amount <= current["amount"]
BidTooLow(current, amount) == current # <<>> /\ amount <= current[1].amount

\* line 249: current["user_id"] if current else None
prev_bidder_id(current) == IF current = <<>> THEN NoUser ELSE current[1].user_id

\* line 253: prev_bidder_id and int(prev_bidder_id) in outbid_watchers[auction_id]
WatchedPrev(watchers, a, prev) == prev # NoUser /\ prev \in watchers[a]

\* confirm_bid from its call to its first await (lines 223-253).  A call
\* takes the first free coroutine slot.
confirm_bid(c, bidder, amount, a) ==
    /\ calls[c].pc = "idle"
    /\ \A d \in Slots : d < c => calls[d].pc # "idle"
    /\ LET current == get_current_highest_now(bids, a)
           prev == prev_bidder_id(current)
           call == [Idle EXCEPT !.auction_id = a]
       IN IF get_auction(auctions, a) = NoRow
          THEN /\ calls' = [calls EXCEPT ![c] = [call EXCEPT !.pc = "await_not_registered"]]
               /\ UNCHANGED <<bids, current_auctions>>
          ELSE IF BidTooLow(current, amount)
          THEN /\ calls' = [calls EXCEPT ![c] = [call EXCEPT !.pc = "await_too_low"]]
               /\ UNCHANGED <<bids, current_auctions>>
          ELSE /\ bids' = record_bid(bids, a, bidder, amount, now)
               /\ current_auctions' = [current_auctions EXCEPT ![a] =
                      [highest_bidder |-> bidder, amount |-> amount]]
               /\ calls' = [calls EXCEPT ![c] =
                      [call EXCEPT !.prev = prev,
                                   !.pc = IF WatchedPrev(outbid_watchers, a, prev)
                                          THEN "await_fetch_user" ELSE "await_ack"]]
    /\ UNCHANGED <<now, content, auctions, outbid_watchers, scheduled_messages,
                   jobs, delivered, detect, dm_count>>

\* /cb (lines 290-291): confirm_bid with the amount of the command
ConfirmBid(c, bidder, amount, a) ==
    /\ confirm_bid(c, bidder, amount, a)
    /\ UNCHANGED <<text, parsed>>

\* the auction id the reaction handler gives a bid message, one without a
\* <t:UNIX> token: str(channel.id) (line 560), an id no handler registers
ChannelId == 2

\* on_raw_reaction_add (lines 527-562) on the bid message whose content is
\* text, written by bidder: parse_amount, then the warning or confirm_bid
OnRawReactionAdd(c, bidder) ==
    /\ parsed' = parse_amount(text)
    /\ IF parse_amount(text) = NoAmount
       THEN UNCHANGED <<now, content, auctions, bids, current_auctions,
                        outbid_watchers, scheduled_messages, jobs, delivered,
                        detect, calls, dm_count>>
       ELSE confirm_bid(c, bidder, parse_amount(text), ChannelId)
    /\ UNCHANGED text

\* a removal that drops every watcher of the auction
DelWatchAll(c) ==
    LET a == calls[c].auction_id
        prev == calls[c].prev
    IN IF prev \in outbid_watchers[a]
       THEN /\ outbid_watchers' = [outbid_watchers EXCEPT ![a] = {}]
            /\ calls' = [calls EXCEPT ![c].pc = "await_ack"]
       ELSE /\ calls' = [calls EXCEPT ![c].pc = "raised_KeyError"]
            /\ UNCHANGED outbid_watchers

\* line 261: del outbid_watchers[auction_id][int(prev_bidder_id)], which
\* raises KeyError when the entry is gone
DelWatch(c) ==
    LET a == calls[c].auction_id
        prev == calls[c].prev
    IN IF prev \in outbid_watchers[a]
       THEN /\ outbid_watchers' = [outbid_watchers EXCEPT ![a] = @ \ {prev}]
            /\ calls' = [calls EXCEPT ![c].pc = "await_ack"]
       ELSE /\ calls' = [calls EXCEPT ![c].pc = "raised_KeyError"]
            /\ UNCHANGED outbid_watchers

Outcomes == {"ok", "Forbidden", "HTTPException"}

\* bot.fetch_user returns or raises (line 255)
FetchUserReturns(c, outcome) ==
    /\ calls[c].pc = "await_fetch_user"
    /\ CASE outcome = "ok" ->
               /\ calls' = [calls EXCEPT ![c].pc = "await_dm"]
               /\ UNCHANGED outbid_watchers
         [] outcome = "Forbidden" -> DelWatch(c)
         [] OTHER ->
               /\ calls' = [calls EXCEPT ![c].pc = "raised_HTTPException"]
               /\ UNCHANGED outbid_watchers
    /\ UNCHANGED <<text, parsed, now, content, auctions, bids, current_auctions, scheduled_messages,
                   jobs, delivered, detect, dm_count>>

\* prev_user.send returns or raises (line 256), then lines 259-261
DmReturns(c, outcome) ==
    /\ calls[c].pc = "await_dm"
    /\ CASE outcome = "ok" ->
               /\ dm_count' = [dm_count EXCEPT ![calls[c].auction_id][calls[c].prev] = @ + 1]
               /\ DelWatch(c)
         [] outcome = "Forbidden" ->
               /\ DelWatch(c)
               /\ UNCHANGED dm_count
         [] OTHER ->
               /\ calls' = [calls EXCEPT ![c].pc = "raised_HTTPException"]
               /\ UNCHANGED <<outbid_watchers, dm_count>>
    /\ UNCHANGED <<text, parsed, now, content, auctions, bids, current_auctions, scheduled_messages,
                   jobs, delivered, detect>>

Ending == {"await_not_registered", "await_too_low", "await_ack",
           "raised_KeyError", "raised_HTTPException"}

\* the last send of confirm_bid returns, or the exception leaves it
Return(c) ==
    /\ calls[c].pc \in Ending
    /\ calls' = [calls EXCEPT ![c] = Idle]
    /\ UNCHANGED <<text, parsed, now, content, auctions, bids, current_auctions, outbid_watchers,
                   scheduled_messages, jobs, delivered, detect, dm_count>>

\* /notify_outbid (lines 279-285)
NotifyOutbid(a, u) ==
    /\ outbid_watchers' = [outbid_watchers EXCEPT ![a] = @ \cup {u}]
    /\ dm_count' = [dm_count EXCEPT ![a][u] = 0]
    /\ UNCHANGED <<text, parsed, now, content, auctions, bids, current_auctions, scheduled_messages,
                   jobs, delivered, detect, calls>>

\* ---------------------------------------------------------------- restart
\* The process stops and starts again.  What lives in memory starts as at
\* construction: the module's maps and set (lines 50-52), the scheduler's
\* job store (AsyncIOScheduler(), line 64: jobs are kept in memory) and the
\* running coroutines.  The tables, the messages and what was already sent
\* stay.  on_ready (lines 469-471) only creates the tables when missing.
Restart ==
    /\ current_auctions' = [a \in AuctionIds |-> NoSnap]
    /\ outbid_watchers' = [a \in AuctionIds |-> {}]
    /\ scheduled_messages' = {}
    /\ jobs' = EmptyBag
    /\ detect' = [m \in MessageIds |-> NoDetect]
    /\ calls' = [c \in Slots |-> Idle]
    /\ UNCHANGED <<text, parsed, now, content, auctions, bids, delivered, dm_count>>

\* ------------------------------------------------------------------- Next
Next ==
    \/ Tick
    \/ \E m \in MessageIds, stamp \in EndTimes \cup {NoStamp} : OnMessage(m, stamp)
    \/ \E m \in MessageIds : OnMessageSchedule(m)
    \/ \E m \in MessageIds, stamp \in EndTimes \cup {NoStamp} : EditMessage(m, stamp)
    \/ \E m \in MessageIds : TrackAuction(m)
    \/ \E j \in BagToSet(jobs) : FireJob(j)
    \/ \E c \in Slots, u \in Users, amt \in Amounts, a \in AuctionIds : ConfirmBid(c, u, amt, a)
    \/ \E c \in Slots, o \in Outcomes : FetchUserReturns(c, o)
    \/ \E c \in Slots, o \in Outcomes : DmReturns(c, o)
    \/ \E c \in Slots : Return(c)
    \/ \E a \in AuctionIds, u \in Users : NotifyOutbid(a, u)
    \/ \E u \in Users, a \in AuctionIds, h \in Offsets, mi \in Offsets : SetReminder(u, a, h, mi)
    \/ \E j \in BagToSet(jobs) : SendReminderDm(j)
    \/ Restart
    \/ \E c \in Slots, u \in Users : OnRawReactionAdd(c, u)

Spec == Init /\ [][Next]_vars

\* ----------------------------------------------------- the store's operations
UpsertPendingAuction(a, end_time_utc) ==
    /\ auctions' = upsert_pending_auction(auctions, a, end_time_utc)
    /\ UNCHANGED <<text, parsed, now, content, bids, current_auctions, outbid_watchers,
                   scheduled_messages, jobs, delivered, detect, calls, dm_count>>

SetAuctionActive(a) ==
    /\ auctions' = set_auction_active(auctions, a)
    /\ UNCHANGED <<text, parsed, now, content, bids, current_auctions, outbid_watchers,
                   scheduled_messages, jobs, delivered, detect, calls, dm_count>>

SetAuctionEnded(a) ==
    /\ auctions' = set_auction_ended(auctions, a)
    /\ UNCHANGED <<text, parsed, now, content, bids, current_auctions, outbid_watchers,
                   scheduled_messages, jobs, delivered, detect, calls, dm_count>>

\* The ledger and the confirmation engine over the store, for the listing:
\* it is registered and activated by the store calls the handlers make.
NextBid ==
    \/ \E m \in MessageIds, e \in EndTimes : UpsertPendingAuction(m, e)
    \/ \E m \in MessageIds : SetAuctionActive(m)
    \/ \E c \in Slots, u \in Users, amt \in Amounts, a \in AuctionIds : ConfirmBid(c, u, amt, a)
    \/ \E c \in Slots, o \in Outcomes : FetchUserReturns(c, o)
    \/ \E c \in Slots, o \in Outcomes : DmReturns(c, o)
    \/ \E c \in Slots : Return(c)
    \/ \E m \in MessageIds, u \in Users : NotifyOutbid(m, u)

SpecBid == Init /\ [][NextBid]_vars

\* The ledger against the clock: confirm_bid calls made one after another,
\* before, at and after an end time.
NextFinal ==
    \/ Tick
    \/ \E m \in MessageIds, e \in EndTimes : UpsertPendingAuction(m, e)
    \/ \E m \in MessageIds : SetAuctionActive(m)
    \/ \E u \in Users, amt \in Amounts, m \in MessageIds : ConfirmBid(1, u, amt, m)
    \/ Return(1)

SpecFinal == Init /\ [][NextFinal]_vars

\* The store's interface alone: every sequence of its three operations,
\* with any auction id and with or without an end time.
NextStore ==
    \/ \E a \in AuctionIds, e \in EndTimes \cup {NoEnd} : UpsertPendingAuction(a, e)
    \/ \E a \in AuctionIds : SetAuctionActive(a)
    \/ \E a \in AuctionIds : SetAuctionEnded(a)

SpecStore == Init /\ [][NextStore]_vars

\* Detection, activation and the alert scheduler.
NextSched ==
    \/ Tick
    \/ \E m \in MessageIds, stamp \in EndTimes \cup {NoStamp} : OnMessage(m, stamp)
    \/ \E m \in MessageIds : OnMessageSchedule(m)
    \/ \E m \in MessageIds, stamp \in EndTimes \cup {NoStamp} : EditMessage(m, stamp)
    \/ \E m \in MessageIds : TrackAuction(m)
    \/ \E j \in BagToSet(jobs) : FireJob(j)

SpecSched == Init /\ [][NextSched]_vars

\* Detection, activation and the alert scheduler, with restarts.
NextRestart ==
    \/ NextSched
    \/ Restart

SpecRestart == Init /\ [][NextRestart]_vars

\* Two registered auctions side by side, each with its bids and watchers,
\* and confirm_bid calls made one after another.
NextFrame ==
    \/ \E a \in AuctionIds, e \in EndTimes : UpsertPendingAuction(a, e)
    \/ \E u \in Users, amt \in Amounts, a \in AuctionIds :
          Len(bids) < MaxBids /\ ConfirmBid(1, u, amt, a)
    \/ \E o \in Outcomes : FetchUserReturns(1, o)
    \/ \E o \in Outcomes : DmReturns(1, o)
    \/ Return(1)
    \/ \E a \in AuctionIds, u \in Users : NotifyOutbid(a, u)

SpecFrame == Init /\ [][NextFrame]_vars

\* The confirmation engine of SpecBid in a process that stops and starts
\* again: the snapshots are lost, the bids table is kept.
NextSnap ==
    \/ NextBid
    \/ Restart

SpecSnap == Init /\ [][NextSnap]_vars

\* Reactions on a bid message: whatever its text is, the handler parses it
\* and hands the amount to confirm_bid.
InitReact ==
    /\ text \in Texts
    /\ parsed = NotParsed
    /\ now = 0
    /\ content = [m \in MessageIds |-> NoMsg]
    /\ auctions = [a \in AuctionIds |-> NoRow]
    /\ bids = <<>>
    /\ current_auctions = [a \in AuctionIds |-> NoSnap]
    /\ outbid_watchers = [a \in AuctionIds |-> {}]
    /\ scheduled_messages = {}
    /\ jobs = EmptyBag
    /\ delivered = [m \in MessageIds |-> [k \in Kinds |-> 0]]
    /\ detect = [m \in MessageIds |-> NoDetect]
    /\ calls = [c \in Slots |-> Idle]
    /\ dm_count = [a \in AuctionIds |-> [u \in Users |-> 0]]

NextReact ==
    \/ \E u \in Users : OnRawReactionAdd(1, u)
    \/ Return(1)

SpecReact == InitReact /\ [][NextReact]_vars

\* The reminders of the listing against the clock.
NextRemind ==
    \/ Tick
    \/ \E u \in Users, m \in MessageIds, h \in Offsets, mi \in Offsets : SetReminder(u, m, h, mi)
    \/ \E j \in BagToSet(jobs) : SendReminderDm(j)

SpecRemind == Init /\ [][NextRemind]_vars

\* ================================================================ claims
AmountsOf(table, a) == {table[i].amount : i \in {k \in 1..Len(table) : table[k].auction_id = a}}

MaxOf(S) == CHOOSE x \in S : \A y \in S : y <= x

\* C1: a step that starts a confirm_bid call on a registered auction either
\* rejects it as too low and appends nothing, or appends exactly the bid of
\* the call, whose amount exceeds every amount recorded before (so a call
\* with an amount at most the largest recorded is never appended); after an
\* accepted call the current leader is the bid just appended and its amount
\* is the largest amount recorded.
C1_LeaderIsNewestAndHighest ==
    [][\A c \in Slots :
          (calls[c].pc = "idle" /\ calls'[c].pc # "idle") =>
             LET a == calls'[c].auction_id
                 old == AmountsOf(bids, a)
             IN auctions[a] # NoRow =>
                   IF bids' = bids
                   THEN calls'[c].pc = "await_too_low" /\ old # {}
                   ELSE LET b == bids'[Len(bids')]
                        IN /\ bids' = Append(bids, b)
                           /\ ConfirmBid(c, b.user_id, b.amount, a)
                           /\ b.bid_time_utc = now
                           /\ old # {} => b.amount > MaxOf(old)
                           /\ get_current_highest_now(bids', a) = <<b>>
                           /\ b.amount = MaxOf(AmountsOf(bids', a))]_vars

\* a rejected call stands beside two bids accepted at different instants
C1_Witness ==
    /\ \E c \in Slots : calls[c].pc = "await_too_low"
    /\ Len(bids) >= 2
    /\ bids[1].auction_id = bids[2].auction_id
    /\ bids[1].bid_time_utc < bids[2].bid_time_utc

\* C2: in every reachable state, whatever the interleaving of confirm_bid
\* coroutines, the amounts recorded for an auction strictly increase in the
\* order the bids were appended (so two calls with equal amounts, or two
\* calls that read the same leader, never both succeed).
C2_AmountsStrictlyIncrease ==
    \A a \in AuctionIds :
        LET rows == BidsOf(bids, a)
        IN \A i, j \in 1..Len(rows) : i < j => rows[i].amount < rows[j].amount

\* two accepted calls on one auction are in flight at once
C2_Witness ==
    \E c, d \in Slots :
        /\ c # d
        /\ calls[c].pc \in {"await_fetch_user", "await_dm"}
        /\ calls[d].pc \in {"await_fetch_user", "await_dm", "await_ack"}
        /\ calls[c].auction_id = calls[d].auction_id
        /\ Len(BidsOf(bids, calls[c].auction_id)) >= 2

\* C3: between one notify_outbid(a, u) and the next, u gets at most one
\* outbid DM for auction a.
C3_OneDmPerWatch ==
    \A a \in AuctionIds, u \in Users : dm_count[a][u] <= 1

\* the indices of the bids of auction a recorded at or before instant T
Eligible(table, a, T) ==
    {i \in 1..Len(table) : table[i].auction_id = a /\ table[i].bid_time_utc <= T}

\* res is the highest bid, the earliest among equals, of those recorded for
\* a at or before T; none when there is no such bid
IsFinalLeader(res, table, a, T) ==
    IF Eligible(table, a, T) = {} THEN res = <<>>
    ELSE \E i \in Eligible(table, a, T) :
            /\ res = <<[user_id |-> table[i].user_id, amount |-> table[i].amount,
                        bid_time_utc |-> table[i].bid_time_utc,
                        auction_id |-> a]>>
            /\ \A j \in Eligible(table, a, T) :
                  \/ table[j].amount < table[i].amount
                  \/ /\ table[j].amount = table[i].amount
                     /\ table[i].bid_time_utc <= table[j].bid_time_utc

\* C4: after every step final_leader is the highest, earliest bid among the
\* bids with bid_time <= end_time (none if there is none), and a step taken
\* once the clock has passed end_time leaves final_leader as it was.
C4_FinalLeaderAtOrBeforeEnd ==
    [][\A a \in AuctionIds :
          (auctions'[a] # NoRow /\ auctions'[a].end_time_utc # NoEnd) =>
             /\ IsFinalLeader(get_highest_bid_before_end(bids', auctions', a),
                              bids', a, auctions'[a].end_time_utc)
             /\ (auctions[a].end_time_utc # NoEnd /\ now > auctions[a].end_time_utc
                   => get_highest_bid_before_end(bids', auctions', a)
                        = get_highest_bid_before_end(bids, auctions, a))]_vars

\* the pending jobs of one kind for one message
PendingCount(m, k) ==
    LET S == {j \in BagToSet(jobs) : j.message_id = m /\ j.kind = k}
    IN BagCardinality([j \in S |-> jobs[j]])

\* C5: in every reachable state an auction has at most one pending halfway
\* job and at most one pending one_hour job.
C5_OnePendingJobPerKind ==
    \A m \in MessageIds, k \in Kinds : PendingCount(m, k) <= 1

\* C6: over any run the halfway alert and the one-hour alert of an auction
\* are each delivered to the channel at most once.
C6_AlertDeliveredOnce ==
    \A m \in MessageIds, k \in Kinds : delivered[m][k] <= 1

\* what a scheduling step run at instant t for end time E adds to the jobs:
\* when E > t + 1h, a halfway job at the tick nearest to the midpoint of t
\* and E (the midpoint itself when it falls on a tick) and a one_hour job at
\* E - 1h; nothing otherwise
SchedulesExactly(m, t, E) ==
    IF E > t + Hour
    THEN \E h \in Times :
            /\ 2 * h - (t + E) \in {0 - 1, 0, 1}
            /\ jobs' = jobs (+) SetToBag({[kind |-> "halfway", message_id |-> m, run_date |-> h]})
                            (+) SetToBag({[kind |-> "one_hour", message_id |-> m,
                                           run_date |-> E - Hour]})
    ELSE jobs' = jobs

\* C7: the scheduling step of track_auction (at the clock) and of on_message
\* (at the instant it read the clock) schedules the halfway alert at
\* now + (E - now)/2 and the one_hour alert at E - 1h exactly when
\* E > now + 1h, and schedules nothing when E <= now + 1h.
C7_ScheduleTimes ==
    [][\A m \in MessageIds :
          /\ TrackAuction(m) => SchedulesExactly(m, now, content[m])
          /\ OnMessageSchedule(m) =>
                SchedulesExactly(m, detect[m].now, detect[m].end_time)]_vars

\* an activated auction whose halfway alert is due after its one_hour alert
\* (as with 90 minutes to go)
C7_Witness ==
    \E m \in MessageIds :
        /\ auctions[m].status = "active"
        /\ \E j1, j2 \in BagToSet(jobs) :
              /\ j1.kind = "halfway" /\ j2.kind = "one_hour"
              /\ j1.message_id = m /\ j2.message_id = m
              /\ j1.run_date > j2.run_date

FrameOfReject ==
    UNCHANGED <<bids, auctions, outbid_watchers, current_auctions, dm_count>>

C9_UpsertIdempotent ==
    \A a \in AuctionIds, e \in EndTimes \cup {NoEnd} :
        LET once == upsert_pending_auction(auctions, a, e)
        IN /\ upsert_pending_auction(once, a, e) = once
           /\ \A b \in AuctionIds \ {a} : once[b] = auctions[b]
           /\ auctions[a] # NoRow =>
                 /\ once[a].status = auctions[a].status
                 /\ auctions[a].end_time_utc # NoEnd =>
                       once[a].end_time_utc = auctions[a].end_time_utc
                 /\ once[a].end_time_utc # auctions[a].end_time_utc =>
                       auctions[a].end_time_utc = NoEnd

\* an active auction with an end time, which a register with another end
\* time leaves as it is, beside an auction without an end time, which a
\* register fills in
C9_Witness ==
    \E a, b \in AuctionIds, e \in EndTimes :
        /\ auctions[a].status = "active"
        /\ auctions[a].end_time_utc \notin {NoEnd, e}
        /\ upsert_pending_auction(auctions, a, e) = auctions
        /\ auctions[b].status = "ended"
        /\ auctions[b].end_time_utc = NoEnd
        /\ upsert_pending_auction(auctions, b, e)[b] = [end_time_utc |-> e, status |-> "ended"]

Forward == {<<"absent", "pending">>, <<"pending", "active">>, <<"active", "ended">>,
            <<"pending", "canceled">>, <<"active", "canceled">>}

\* C10: every change of an auction's status is pending -> active,
\* active -> ended, pending -> canceled or active -> canceled (after its
\* creation as pending); ended and canceled are final.
C10_StatusForwardOnly ==
    [][\A a \in AuctionIds :
          auctions'[a].status # auctions[a].status =>
             <<auctions[a].status, auctions'[a].status>> \in Forward]_vars

\* C11: a /set_reminder request whose offset from now is zero adds no job,
\* and every reminder job a request adds has a fire time strictly later than
\* the time of the request, whatever the integers hours and minutes are.
C11_ReminderStrictlyLater ==
    [][\A u \in Users, a \in AuctionIds, h \in Offsets, mi \in Offsets :
          SetReminder(u, a, h, mi) =>
             /\ total_delay(h, mi) = 0 => jobs' = jobs
             /\ \A j \in BagToSet(jobs') :
                   (j.kind = "reminder" /\ CopiesIn(j, jobs') > CopiesIn(j, jobs)) =>
                       j.run_date > now]_vars

\* C12: when resolving the previous leader's user or sending the outbid DM
\* fails, with whatever failure, the call goes on to its acknowledgement
\* (nothing leaves confirm_bid) and the recorded bids stay as they are.
C12_DmFailureSwallowed ==
    [][\A c \in Slots, o \in Outcomes \ {"ok"} :
          (FetchUserReturns(c, o) \/ DmReturns(c, o)) =>
             bids' = bids /\ calls'[c].pc = "await_ack"]_vars

\* C13: across a restart, every halfway or one_hour alert that was pending
\* for an active auction whose end time is still ahead is pending again
\* after startup (a job of that kind for that auction is in the job store).
C13_AlertsSurviveRestart ==
    [][Restart =>
          \A j \in BagToSet(jobs) :
             (/\ j.kind \in Kinds
              /\ auctions[j.message_id].status = "active"
              /\ auctions[j.message_id].end_time_utc > now) =>
                 \E k \in BagToSet(jobs') :
                     k.kind = j.kind /\ k.message_id = j.message_id]_vars

\* C14: every bid in the bids table has a strictly positive amount.
C14_AmountsPositive ==
    \A i \in 1..Len(bids) : bids[i].amount > 0

\* the digit run the parse takes: positions i..j of the stripped text s
FirstRun(s, i, j) ==
    /\ i <= j
    /\ \A k \in 1..(i - 1) : s[k] \notin Digits
    /\ \A k \in i..j : s[k] \in Digits
    /\ j < Len(s) => s[j + 1] \notin Digits

\* C15 as amended: a text with no digit fails; otherwise the amount is the
\* value of the first run of digits of the text once lower-cased and
\* stripped of ",", "upx" and "$", times 1000 exactly when a "k" comes
\* right after that run in the stripped text; and the examples of the
\* claim parse to 5000, 7500 and 12.
C15_ParseAmount ==
    /\ parse_amount(<<"5", "k">>) = 5000
    /\ parse_amount(<<"n", "e", "w", " ", "b", "i", "d", " ", "7", ",", "5", "0", "0">>) = 7500
    /\ parse_amount(<<"$", "1", "2">>) = 12
    /\ parsed # NotParsed =>
          LET s == Stripped(text)
          IN IF \A k \in 1..Len(text) : text[k] \notin Digits
             THEN parsed = NoAmount
             ELSE \E i, j \in 1..Len(s) :
                     /\ FirstRun(s, i, j)
                     /\ parsed = IntOf(SubSeq(s, i, j)) *
                                   (IF j < Len(s) /\ s[j + 1] = "k" THEN 1000 ELSE 1)

\* a message with separators, a unit token and a marker has been parsed,
\* and the marker counted although it does not touch the digits
C15_Witness ==
    /\ parsed = 5000
    /\ Len(text) >= 3
    /\ text[1] = "5"
    /\ text[2] # "k" /\ text[2] # "K"

\* C15 as stated: the amount is multiplied by 1000 exactly when a "k" (in
\* either case) comes right after the last digit of the run in the
\* original text.
C15_MarkerInOriginalText ==
    (parsed # NotParsed /\ parsed # NoAmount) =>
        LET s == Stripped(text)
            i == CHOOSE i \in 1..Len(s) : \E j \in i..Len(s) : FirstRun(s, i, j)
            j == CHOOSE j \in i..Len(s) : FirstRun(s, i, j)
            digits == {k \in 1..Len(text) : text[k] \in Digits}
            last == CHOOSE k \in digits :
                        Cardinality({d \in digits : d <= k}) = j - i + 1
            marked == last < Len(text) /\ LowerChar(text[last + 1]) = "k"
        IN parsed = IntOf(SubSeq(s, i, j)) * (IF marked THEN 1000 ELSE 1)

\* C16: a confirm_bid call whose amount exceeds the current leader, made
\* after the auction's end time or while the auction is pending, is
\* accepted: its bid is appended and is the current leader; and no bid
\* confirmed after its auction's end time is ever what final_leader
\* (get_highest_bid_before_end) returns.
C16_LateBidLeadsButNeverFinal ==
    [][/\ \A c \in Slots, u \in Users, amt \in Amounts, a \in AuctionIds :
             (/\ ConfirmBid(c, u, amt, a)
              /\ auctions[a] # NoRow
              /\ AmountsOf(bids, a) # {} => amt > MaxOf(AmountsOf(bids, a))
              /\ now > auctions[a].end_time_utc \/ auctions[a].status = "pending") =>
                 /\ bids' = Append(bids, [auction_id |-> a, user_id |-> u,
                                          amount |-> amt, bid_time_utc |-> now])
                 /\ get_current_highest_now(bids', a) = <<bids'[Len(bids')]>>
       /\ \A i \in 1..Len(bids') :
             LET a == bids'[i].auction_id
             IN (/\ auctions'[a].end_time_utc # NoEnd
                 /\ bids'[i].bid_time_utc > auctions'[a].end_time_utc) =>
                    get_highest_bid_before_end(bids', auctions', a) # <<bids'[i]>>]_vars

\* C17: no confirm_bid call finds the previous leader's entry gone when it
\* removes it from outbid_watchers: the removal never raises.
C17_RemovalNeverFails ==
    \A c \in Slots : calls[c].pc # "raised_KeyError"

\* C18: in every reachable state each pending one_hour alert of an auction
\* fires at the auction's stored end time minus one hour.
C18_OneHourAgreesWithStore ==
    \A j \in BagToSet(jobs) :
        j.kind = "one_hour" =>
            j.run_date = auctions[j.message_id].end_time_utc - Hour

\* C19: the step that accepts a confirm_bid call on auction a appends one
\* bid, to a, and leaves the bids, the leader and the snapshot of every
\* other auction, all watchers and all DM counts as they were; the later
\* steps of the call (resolving the user, the DM, the removal, the
\* acknowledgement) leave every bid and snapshot as they were, send a DM to
\* nobody but a's previous leader and remove no watcher entry other than
\* that of a's previous leader for a.
C19_AcceptedBidFrame ==
    [][\A c \in Slots :
          /\ (calls[c].pc = "idle" /\ calls'[c].pc # "idle" /\ bids' # bids) =>
                LET a == calls'[c].auction_id
                IN /\ Len(bids') = Len(bids) + 1
                   /\ SubSeq(bids', 1, Len(bids)) = bids
                   /\ bids'[Len(bids')].auction_id = a
                   /\ calls'[c].prev = prev_bidder_id(get_current_highest_now(bids, a))
                   /\ \A b \in AuctionIds \ {a} :
                         /\ BidsOf(bids', b) = BidsOf(bids, b)
                         /\ get_current_highest_now(bids', b) = get_current_highest_now(bids, b)
                         /\ current_auctions'[b] = current_auctions[b]
                   /\ UNCHANGED <<outbid_watchers, dm_count>>
          /\ (calls[c].pc \in {"await_fetch_user", "await_dm", "await_ack"}
              /\ calls'[c] # calls[c]) =>
                LET a == calls[c].auction_id
                    prev == calls[c].prev
                IN /\ UNCHANGED <<bids, current_auctions>>
                   /\ \A b \in AuctionIds, u \in Users :
                         <<b, u>> # <<a, prev>> =>
                            /\ u \in outbid_watchers'[b] <=> u \in outbid_watchers[b]
                            /\ dm_count'[b][u] = dm_count[b][u]
                   /\ outbid_watchers'[a] \subseteq outbid_watchers[a]]_vars

\* a call on one auction has sent its DM to the previous leader and removed
\* that watch, while another user still watches the auction and the other
\* auction has a bid and a watcher
C19_Witness ==
    \E c \in Slots, a, b \in AuctionIds :
        /\ a # b
        /\ calls[c].pc = "await_ack"
        /\ calls[c].auction_id = a
        /\ calls[c].prev # NoUser
        /\ dm_count[a][calls[c].prev] = 1
        /\ calls[c].prev \notin outbid_watchers[a]
        /\ outbid_watchers[a] # {}
        /\ BidsOf(bids, b) # <<>>
        /\ outbid_watchers[b] # {}

\* the jobs a step adds to the job store
AddedJobs == {j \in BagToSet(jobs') : CopiesIn(j, jobs') > CopiesIn(j, jobs)}

\* C20: every halfway and one_hour job that track_auction or on_message
\* adds, for the now the handler read and the end time E of the message,
\* fires strictly after that now and strictly before E.
C20_FireTimeBetweenNowAndEnd ==
    [][\A m \in MessageIds :
          /\ TrackAuction(m) =>
                \A j \in AddedJobs :
                    j.kind \in Kinds => now < j.run_date /\ j.run_date < content[m]
          /\ OnMessageSchedule(m) =>
                \A j \in AddedJobs :
                    j.kind \in Kinds =>
                       detect[m].now < j.run_date /\ j.run_date < detect[m].end_time]_vars

\* on_message and track_auction have both scheduled the alerts of a
\* message, at different instants: two halfway jobs with different times
C20_Witness ==
    \E m \in MessageIds :
        /\ detect[m].pc = "done"
        /\ auctions[m].status = "active"
        /\ \E j1, j2 \in BagToSet(jobs) :
              /\ j1.kind = "halfway" /\ j2.kind = "halfway"
              /\ j1.message_id = m /\ j2.message_id = m
              /\ j1.run_date # j2.run_date

\* C21: in every reachable state, whatever the interleaving of confirm_bid
\* coroutines and across restarts, an auction that has an entry in
\* current_auctions has bids in the table, the entry's amount is the largest
\* amount recorded for the auction, and every recorded bid of that amount
\* is by the entry's bidder.
C21_SnapshotAgreesWithStore ==
    \A a \in AuctionIds :
        current_auctions[a] # NoSnap =>
           LET rows == BidsOf(bids, a)
               top == MaxOf(AmountsOf(bids, a))
           IN /\ rows # <<>>
              /\ current_auctions[a].amount = top
              /\ \A i \in 1..Len(rows) :
                    rows[i].amount = top =>
                       rows[i].user_id = current_auctions[a].highest_bidder

\* two accepted calls on one auction are in flight at once, the one that
\* recorded its first bid and one that outbid a leader; three bids are
\* recorded and the entry names another bidder than the second bid's
C21_Witness ==
    \E a \in AuctionIds :
        /\ current_auctions[a] # NoSnap
        /\ Len(BidsOf(bids, a)) >= 3
        /\ BidsOf(bids, a)[2].user_id # current_auctions[a].highest_bidder
        /\ \A c \in Slots :
              /\ calls[c].pc \in {"await_fetch_user", "await_dm", "await_ack"}
              /\ calls[c].auction_id = a
        /\ calls[1].prev = NoUser /\ calls[2].prev # NoUser

====
